---- MODULE Spec2Model ----
(***************************************************************************)
(* Model of internal/driver/webjson.go: the four HTTP handlers topData,    *)
(* flamegraphData, dotsvg and dotgraph of the pprof web interface, with    *)
(* the graph-to-tree builder of flamegraphData modelled statement by       *)
(* statement (one step per loop iteration).                                *)
(*                                                                         *)
(* A graph.Node pointer is named by its position in g.Nodes (1..g.n); the  *)
(* edge relation g.E is arbitrary, so every order of g.Nodes relative to   *)
(* the edges is covered.  A *treeNode is named by its allocation index in  *)
(* heap.                                                                   *)
(***************************************************************************)
EXTENDS Integers, Sequences, FiniteSets

VARIABLES
    g,          \* the call graph report.GetDOT returns for the profile
    incoming,   \* the configurations requests arrive with
    pc,         \* "ready" between requests, "flame" inside flamegraphData
    req,        \* the current / most recent request and what happened to it
    cfg,        \* the config handed to report generation (after the editor)
    w,          \* the http.ResponseWriter of the current / most recent request
    uiErr,      \* what the request printed with ui.options.UI.PrintErr
    i,          \* first pass: number of g.Nodes elements processed
    j,          \* second pass: number of g.Nodes elements processed
    nodes,      \* []*treeNode
    nroots,
    rootValue,
    nodeArr,    \* []string
    nodeMap,    \* map[*graph.Node]*treeNode
    heap,       \* the treeNodes allocated by this invocation
    rootNode,   \* <<the synthetic root>>, empty until it is built
    prev        \* <<the tree the previous completed invocation built>>

vars == <<g, incoming, pc, req, cfg, w, uiErr, i, j, nodes, nroots, rootValue,
          nodeArr, nodeMap, heap, rootNode, prev>>

\* what no handler writes
env == <<g, incoming>>

locals == <<i, j, nodes, nroots, rootValue, nodeArr, nodeMap, heap, rootNode>>

(* ------------------------------ bounds -------------------------------- *)

\* nodes of the graph, and edges between them, in SpecTree
MaxNodes == 3
MaxEdges == 2
\* nodes of the graph in the specification of the four handlers
MaxHandlerNodes == 1

(* ------------------------- program constants -------------------------- *)

StatusOK == 200
StatusInternalServerError == 500
StatusNotImplemented == 501
TopNodeCount == 500

(* ----------------------------- helpers -------------------------------- *)

RECURSIVE SumOver(_, _)
SumOver(S, f) ==
    IF S = {} THEN 0
    ELSE LET x == CHOOSE y \in S : TRUE IN f[x] + SumOver(S \ {x}, f)

Range(s) == {s[k] : k \in DOMAIN s}

RECURSIVE Perms(_)
\* every order in which a Go map with key set S can be iterated
Perms(S) ==
    IF S = {} THEN {<<>>}
    ELSE UNION {{<<x>> \o p : p \in Perms(S \ {x})} : x \in S}

Swap(s, a, b) == [s EXCEPT ![a] = s[b], ![b] = s[a]]

(* ------------------------------ graph --------------------------------- *)

\* Info of a node: printable name and cumulative value
Infos == {[name |-> <<"pkg", "f">>, cum |-> 1], [name |-> <<"pkg", "g">>, cum |-> 2]}

RECURSIVE EdgeSets(_, _)
\* the sets of at most k edges among the pairs P
EdgeSets(P, k) ==
    IF k = 0 THEN {{}}
    ELSE LET S == EdgeSets(P, k - 1)
         IN S \cup {X \cup {e} : X \in S, e \in P}

Graphs ==
    UNION {{[n |-> n, E |-> E, info |-> info] :
              E \in EdgeSets((1..n) \X (1..n), MaxEdges),
              info \in [1..n -> Infos]} : n \in 0..MaxNodes}

GNodes(gr) == 1..gr.n
In(gr, n) == {a \in GNodes(gr) : <<a, n>> \in gr.E}
Out(gr, n) == {b \in GNodes(gr) : <<n, b>> \in gr.E}
CumValue(gr, n) == gr.info[n].cum
PrintableName(gr, n) == gr.info[n].name
InfoName(gr, n) == gr.info[n].name[2]
Roots(gr) == {n \in GNodes(gr) : In(gr, n) = {}}
\* config.Total of the report
Total(gr) == SumOver(Roots(gr), [n \in GNodes(gr) |-> CumValue(gr, n)])

\* graph.ShortenFunctionName: drops the package qualifier
ShortenFunctionName(full) == <<full[Len(full)]>>
\* config.FormatValue
FormatValue(v) == <<v, "units">>
\* strings.TrimSpace(measurement.Percentage(v, total))
Percentage(v, total) ==
    IF total = 0 THEN <<0, "%">> ELSE <<(v * 100) \div total, "%">>

(* ----------------------- http.ResponseWriter --------------------------- *)

\* status 0: the header is not written yet.  ctype is the Content-Type of the
\* header map, sent the Content-Type that went out with the status line.
NewResponse == [status |-> 0, ctype |-> <<>>, sent |-> <<>>, body |-> <<>>]

HeaderAdd(rw, v) == [rw EXCEPT !.ctype = Append(@, v)]

\* a second WriteHeader is superfluous and ignored
WriteHeader(rw, code) ==
    IF rw.status # 0 THEN rw ELSE [rw EXCEPT !.status = code, !.sent = rw.ctype]

\* Write sends the header with StatusOK first when none was written
Write(rw, b) == [WriteHeader(rw, StatusOK) EXCEPT !.body = Append(@, b)]

Text(msg) == [kind |-> "text", val |-> msg]
Data(kind) == [kind |-> kind, val |-> <<>>]

\* http.Error: set Content-Type, WriteHeader(code), print the message
HttpError(rw, msg, code) ==
    Write(WriteHeader([rw EXCEPT !.ctype = <<"text/plain; charset=utf-8">>], code),
          Text(msg))

RECURSIVE Join(_, _)
\* strings.Join
Join(s, sep) ==
    IF Len(s) = 0 THEN <<>>
    ELSE IF Len(s) = 1 THEN <<s[1]>>
    ELSE <<s[1], sep>> \o Join(Tail(s), sep)

\* json.NewEncoder(w).Encode(v): the value is marshalled and written in one
\* piece; marshalling can fail (nothing written) and the write can fail
\* after part of the bytes went out.
Encode(rw, kind, outcome) ==
    IF outcome = "ok" THEN Write(rw, Data(kind))
    ELSE IF outcome = "partial" THEN Write(rw, Data("truncated"))
    ELSE rw

(* --------------------------- report generation ------------------------ *)

\* the configuration a request arrives with (settings, URL parameters)
DefaultCfg == [NodeCount |-> -1, CallTree |-> FALSE, Trim |-> TRUE]

ReqCfgs == {DefaultCfg, [NodeCount |-> 80, CallTree |-> TRUE, Trim |-> FALSE]}

ErrLists == {<<>>, <<"e1">>, <<"e1", "e2">>}

\* ui.makeReport: a report, or nil and the diagnostics.  It leaves the
\* response untouched: reporting is the handler's.
ReportOutcomes ==
    {[ok |-> TRUE, errList |-> <<>>]} \cup {[ok |-> FALSE, errList |-> e] : e \in ErrLists}

\* The config editor of each handler; makeReport applies it to the request's
\* config before the report is generated.
\* lines 15-17
topEditor(c) == [c EXCEPT !.NodeCount = TopNodeCount]

\* lines 35-38 without the CallTree assignment
flamegraphEditorNoTree(c) == [c EXCEPT !.Trim = FALSE]

\* lines 35-38
flamegraphEditor(c) == [c EXCEPT !.CallTree = TRUE, !.Trim = FALSE]

nilEditor(c) == c

GenErrorMsg(errList) == <<"error genereating report">> \o Join(errList, ";")

NewReq(h, in, out) ==
    [handler |-> h, in |-> in, rptOk |-> out.ok, errList |-> out.errList,
     extracted |-> FALSE, render |-> "none", enc |-> "none"]

(* ---------------------------- tree values ----------------------------- *)

\* lines 47-51: the locals of flamegraphData before the first pass
LocalsInit ==
    /\ i = 0
    /\ j = 0
    /\ nodes = <<>>
    /\ nroots = 0
    /\ rootValue = 0
    /\ nodeArr = <<>>
    /\ nodeMap = <<>>
    /\ heap = <<>>
    /\ rootNode = <<>>

LocalsReset ==
    /\ i' = 0
    /\ j' = 0
    /\ nodes' = <<>>
    /\ nroots' = 0
    /\ rootValue' = 0
    /\ nodeArr' = <<>>
    /\ nodeMap' = <<>>
    /\ heap' = <<>>
    /\ rootNode' = <<>>

Snapshot == [g |-> g, heap |-> heap, nodeMap |-> nodeMap, root |-> rootNode[1]]

\* a handler invocation starts with fresh locals; the tree the previous
\* invocation built, if any, is remembered in prev
StartRequest ==
    /\ pc = "ready"
    /\ LocalsReset
    /\ prev' = IF rootNode # <<>> THEN <<Snapshot>> ELSE prev

(* ------------------------------ Init ---------------------------------- *)

InitRequest ==
    /\ pc = "ready"
    /\ req = NewReq("none", DefaultCfg, [ok |-> TRUE, errList |-> <<>>])
    /\ cfg = req.in
    /\ w = NewResponse
    /\ uiErr = <<>>
    /\ LocalsInit
    /\ prev = <<>>

\* the server with the four handlers; the profile's graph is a small one
Init ==
    /\ g \in {gr \in Graphs : gr.n <= MaxHandlerNodes}
    /\ incoming = ReqCfgs
    /\ InitRequest

\* flamegraphData on every graph of the bounds, asked for with the default
\* configuration
InitTree ==
    /\ g \in Graphs
    /\ incoming = {DefaultCfg}
    /\ InitRequest

(* ----------------------------- topData -------------------------------- *)

\* lines 14-30
topData ==
    /\ StartRequest
    /\ \E in \in incoming, out \in ReportOutcomes, e \in {"ok", "partial", "err"} :
         /\ cfg' = topEditor(in)
         /\ IF ~out.ok
            THEN /\ uiErr' = <<Text(out.errList)>>
                 /\ w' = HttpError(NewResponse, GenErrorMsg(out.errList),
                                   StatusInternalServerError)
                 /\ req' = NewReq("top", in, out)
            ELSE LET w1 == WriteHeader(HeaderAdd(NewResponse, "application/json"), StatusOK)
                     w2 == Encode(w1, "json-top", e)
                 IN /\ req' = [NewReq("top", in, out) EXCEPT !.extracted = TRUE, !.enc = e]
                    /\ IF e # "ok"
                       THEN /\ w' = HttpError(w2, <<"error serializing top">>,
                                              StatusInternalServerError)
                            /\ uiErr' = <<Text(<<"encode error">>)>>
                       ELSE /\ w' = w2
                            /\ uiErr' = <<>>
    /\ UNCHANGED <<env, pc>>

(* ------------------------------ dotsvg -------------------------------- *)

\* lines 115-119: the renderer failed
DotsvgRenderErrorAlt(rw) ==
    HttpError(rw, <<"Could not execute dot; may need to install graphviz.">>,
              StatusInternalServerError)

DotsvgRenderError(rw) ==
    HttpError(rw, <<"Could not execute dot; may need to install graphviz.">>,
              StatusNotImplemented)

\* lines 120-122 and 139-141
WriteImage(rw, kind) ==
    Write(WriteHeader(HeaderAdd(rw, "image/svg+xml"), StatusOK), Data(kind))

\* lines 100-123
dotsvg ==
    /\ StartRequest
    /\ \E in \in incoming, out \in ReportOutcomes, r \in {"ok", "err"} :
         /\ cfg' = nilEditor(in)
         /\ IF ~out.ok
            THEN /\ uiErr' = <<Text(out.errList)>>
                 /\ w' = NewResponse
                 /\ req' = NewReq("dotsvg", in, out)
            ELSE /\ req' = [NewReq("dotsvg", in, out) EXCEPT !.extracted = TRUE, !.render = r]
                 /\ IF r = "err"
                    THEN /\ w' = DotsvgRenderError(NewResponse)
                         /\ uiErr' = <<Text(<<"Failed to execute dot. Is Graphviz installed?">>)>>
                    ELSE /\ w' = WriteImage(NewResponse, "svg")
                         /\ uiErr' = <<>>
    /\ UNCHANGED <<env, pc>>

(* ----------------------------- dotgraph ------------------------------- *)

\* lines 126-142
dotgraph ==
    /\ StartRequest
    /\ \E in \in incoming, out \in ReportOutcomes :
         /\ cfg' = nilEditor(in)
         /\ IF ~out.ok
            THEN /\ uiErr' = <<Text(out.errList)>>
                 /\ w' = NewResponse
                 /\ req' = NewReq("dotgraph", in, out)
            ELSE /\ req' = [NewReq("dotgraph", in, out) EXCEPT !.extracted = TRUE]
                 /\ w' = WriteImage(NewResponse, "dot")
                 /\ uiErr' = <<>>
    /\ UNCHANGED <<env, pc>>

(* -------------------------- flamegraphData ---------------------------- *)

\* lines 54-62: the treeNode of graph node n
NewTreeNode(gr, n) ==
    [Name      |-> ShortenFunctionName(PrintableName(gr, n)),
     FullName  |-> PrintableName(gr, n),
     Cum       |-> CumValue(gr, n),
     CumFormat |-> FormatValue(CumValue(gr, n)),
     Percent   |-> Percentage(CumValue(gr, n), Total(gr)),
     Children  |-> <<>>]

\* lines 64-68 without the swap: the root stays where it was appended
PartitionNoSwap(ns, nr, rv, isRoot, v) ==
    IF ~isRoot THEN [ok |-> TRUE, nodes |-> ns, nroots |-> nr, rootValue |-> rv]
    ELSE [ok |-> TRUE, nodes |-> ns, nroots |-> nr + 1, rootValue |-> rv + v]

\* lines 64-68 with the value added for every node
PartitionSumAll(ns, nr, rv, isRoot, v) ==
    IF ~isRoot THEN [ok |-> TRUE, nodes |-> ns, nroots |-> nr, rootValue |-> rv + v]
    ELSE [ok |-> nr + 1 <= Len(ns), nodes |-> Swap(ns, nr + 1, Len(ns)),
          nroots |-> nr + 1, rootValue |-> rv + v]

\* lines 64-68: ns is nodes after the append (0-based nodes[nroots] is
\* ns[nr + 1]); ok is FALSE when nodes[nroots] is out of range
Partition(ns, nr, rv, isRoot, v) ==
    IF ~isRoot THEN [ok |-> TRUE, nodes |-> ns, nroots |-> nr, rootValue |-> rv]
    ELSE IF nr + 1 > Len(ns)
    THEN [ok |-> FALSE, nodes |-> ns, nroots |-> nr, rootValue |-> rv]
    ELSE [ok |-> TRUE, nodes |-> Swap(ns, nr + 1, Len(ns)),
          nroots |-> nr + 1, rootValue |-> rv + v]

\* line 69 written as nodeMap[n] = nodes[len(nodes)-1]
NodeMapEntryLast(ns, node) == ns[Len(ns)]

\* line 69: the treeNode stored under n (ns is nodes after the partition)
NodeMapEntry(ns, node) == node

MapPut(m, k, v) == [x \in DOMAIN m \cup {k} |-> IF x = k THEN v ELSE m[x]]

\* lines 76-78 keeping only the child iterated last
ChildLinksAssign(children, order, m) ==
    IF order = <<>> THEN children ELSE <<m[order[Len(order)]]>>

\* lines 76-78 with the child taken for the parent's slot
ChildLinksSkipFirst(children, order, m) ==
    children \o [k \in 1..(Len(order) - 1) |-> m[order[k + 1]]]

\* lines 76-78: the children appended in the order the map is iterated
ChildLinks(children, order, m) ==
    children \o [k \in 1..Len(order) |-> m[order[k]]]

\* line 87 with the whole slice
RootChildrenAll(ns, nr) == ns

\* line 87: nodes[0:nroots]
RootChildren(ns, nr) == SubSeq(ns, 1, nr)

\* lines 81-88
NewRootNode(gr, ns, nr, rv) ==
    [Name      |-> <<"root">>,
     FullName  |-> <<"root">>,
     Cum       |-> rv,
     CumFormat |-> FormatValue(rv),
     Percent   |-> Percentage(rv, Total(gr)),
     Children  |-> RootChildren(ns, nr)]

\* the treeNodes reachable from the set S along Children
RECURSIVE Closure(_, _, _)
Closure(h, S, fuel) ==
    LET T == S \cup UNION {Range(h[x].Children) : x \in S}
    IN IF fuel = 0 \/ T = S THEN S ELSE Closure(h, T, fuel - 1)

Descendants(h, x) == Closure(h, Range(h[x].Children), Len(h))
Reachable(h, root) == Closure(h, Range(root.Children), Len(h))
HasCycle(h, root) == \E x \in Reachable(h, root) : x \in Descendants(h, x)

\* what Encode can do with the tree: a cyclic value cannot be marshalled
EncodeOutcomes(h, root) ==
    IF HasCycle(h, root) THEN {"err"} ELSE {"ok", "partial", "err"}

\* lines 32-51: makeReport, the nil check, GetDOT and the locals
flamegraphDataStart ==
    /\ StartRequest
    /\ \E in \in incoming, out \in ReportOutcomes :
         /\ cfg' = flamegraphEditor(in)
         /\ w' = IF out.ok THEN NewResponse
                 ELSE HttpError(NewResponse, GenErrorMsg(out.errList),
                                StatusInternalServerError)
         /\ uiErr' = IF out.ok THEN <<>> ELSE <<Text(out.errList)>>
         /\ req' = [NewReq("flame", in, out) EXCEPT !.extracted = out.ok]
         /\ pc' = IF out.ok THEN "flame" ELSE "ready"
    /\ UNCHANGED env

\* lines 53-72: one iteration of the first loop, on g.Nodes[i]
FirstPass ==
    /\ pc = "flame"
    /\ i < g.n
    /\ LET n    == i + 1
           v    == CumValue(g, n)
           node == Len(heap) + 1
           part == Partition(Append(nodes, node), nroots, rootValue, In(g, n) = {}, v)
       IN /\ heap' = Append(heap, NewTreeNode(g, n))
          /\ nodes' = part.nodes
          /\ nroots' = part.nroots
          /\ rootValue' = part.rootValue
          /\ nodeMap' = MapPut(nodeMap, n, NodeMapEntry(part.nodes, node))
          /\ nodeArr' = Append(nodeArr, InfoName(g, n))
          /\ i' = i + 1
          /\ pc' = IF part.ok THEN "flame" ELSE "panic"
    /\ UNCHANGED <<env, req, cfg, w, uiErr, j, rootNode, prev>>

\* lines 74-79: one iteration of the second loop, on g.Nodes[j]; the inner
\* loop ranges over the map n.Out in any order
SecondPass ==
    /\ pc = "flame"
    /\ i = g.n
    /\ j < g.n
    /\ LET n == j + 1
       IN \E order \in Perms(Out(g, n)) :
            heap' = [heap EXCEPT ![nodeMap[n]].Children = ChildLinks(@, order, nodeMap)]
    /\ j' = j + 1
    /\ UNCHANGED <<env, pc, req, cfg, w, uiErr, i, nodes, nroots, rootValue,
                   nodeArr, nodeMap, rootNode, prev>>

\* lines 81-96: the synthetic root and the response
flamegraphDataFinish ==
    /\ pc = "flame"
    /\ i = g.n
    /\ j = g.n
    /\ IF nroots > Len(nodes)
       THEN /\ pc' = "panic"
            /\ UNCHANGED <<rootNode, req, w, uiErr>>
       ELSE LET root == NewRootNode(g, nodes, nroots, rootValue)
                w1   == WriteHeader(HeaderAdd(w, "application/json"), StatusOK)
            IN /\ rootNode' = <<root>>
               /\ pc' = "ready"
               /\ \E e \in EncodeOutcomes(heap, root) :
                    /\ req' = [req EXCEPT !.enc = e]
                    /\ IF e # "ok"
                       THEN /\ w' = HttpError(Encode(w1, "json-tree", e),
                                              <<"error serializing flame graph">>,
                                              StatusInternalServerError)
                            /\ uiErr' = <<Text(<<"encode error">>)>>
                       ELSE /\ w' = Encode(w1, "json-tree", e)
                            /\ uiErr' = <<>>
    /\ UNCHANGED <<env, cfg, i, j, nodes, nroots, rootValue, nodeArr, nodeMap, heap, prev>>

(* --------------------------- specification ---------------------------- *)

Next ==
    \/ topData
    \/ flamegraphDataStart
    \/ FirstPass
    \/ SecondPass
    \/ flamegraphDataFinish
    \/ dotsvg
    \/ dotgraph

Spec == Init /\ [][Next]_vars

NextTree ==
    \/ flamegraphDataStart
    \/ FirstPass
    \/ SecondPass
    \/ flamegraphDataFinish

SpecTree == InitTree /\ [][NextTree]_vars

(* ------------------------------ claims -------------------------------- *)

\* flamegraphData ran to its end and built the root in this invocation
TreeDone == pc = "ready" /\ rootNode # <<>>

CumOf == [n \in GNodes(g) |-> CumValue(g, n)]

TreeNodeOf(n) == heap[nodeMap[n]]

\* the graph is a forest: no node has two parents, no node reaches itself
RECURSIVE GraphReach(_, _, _)
GraphReach(gr, S, fuel) ==
    LET T == S \cup UNION {Out(gr, x) : x \in S}
    IN IF fuel = 0 \/ T = S THEN S ELSE GraphReach(gr, T, fuel - 1)

IsForest(gr) ==
    /\ \A n \in GNodes(gr) : Cardinality(In(gr, n)) <= 1
    /\ \A n \in GNodes(gr) : n \notin GraphReach(gr, Out(gr, n), gr.n)

\* how often treeNode id occurs in a Children list of the output
Occurrences(id) ==
    Cardinality({k \in DOMAIN rootNode[1].Children : rootNode[1].Children[k] = id})
    + SumOver(DOMAIN heap,
              [x \in DOMAIN heap |->
                 Cardinality({k \in DOMAIN heap[x].Children : heap[x].Children[k] = id})])

\* C1: whatever the graph, the synthetic root's Children are exactly the
\* treeNodes of the nodes without inbound edges, each once, its Cum is the sum
\* of their values, and the handler never panics (the empty graph gives
\* Cum = 0 and no Children).
C1_RootIsTheRoots ==
    /\ pc # "panic"
    /\ TreeDone =>
         /\ rootNode[1].Name = <<"root">>
         /\ Roots(g) \subseteq DOMAIN nodeMap
         /\ Range(rootNode[1].Children) = {nodeMap[n] : n \in Roots(g)}
         /\ Len(rootNode[1].Children) = Cardinality(Roots(g))
         /\ \A n \in Roots(g) : TreeNodeOf(n).FullName = PrintableName(g, n)
         /\ rootNode[1].Cum = SumOver(Roots(g), CumOf)
         /\ g.n = 0 => rootNode[1].Cum = 0 /\ rootNode[1].Children = <<>>

\* two roots, the second found after a non-root, so that the partition swapped
C1_Witness ==
    /\ TreeDone
    /\ Cardinality(Roots(g)) >= 2
    /\ \E a, b \in GNodes(g) : a < b /\ a \notin Roots(g) /\ b \in Roots(g)

\* C2: for a forest, nodeMap is a bijection between the graph's nodes and the
\* treeNodes allocated, each treeNode carries its node's Cum and FullName, and
\* the output holds as many treeNodes as the graph has nodes, plus the root.
C2_OneTreeNodePerGraphNode ==
    (TreeDone /\ IsForest(g)) =>
        /\ DOMAIN nodeMap = GNodes(g)
        /\ Len(heap) = g.n
        /\ {nodeMap[n] : n \in GNodes(g)} = DOMAIN heap
        /\ \A a, b \in GNodes(g) : nodeMap[a] = nodeMap[b] => a = b
        /\ \A n \in GNodes(g) :
             /\ TreeNodeOf(n).Cum = CumValue(g, n)
             /\ TreeNodeOf(n).FullName = PrintableName(g, n)
        /\ Cardinality(Reachable(heap, rootNode[1])) + 1 = g.n + 1

C2_Witness ==
    /\ TreeDone
    /\ IsForest(g)
    /\ g.n >= 3
    /\ g.E # {}
    /\ nodes[1] # 1

\* C3: once the second loop has handled a node, its treeNode has as many
\* Children as the node has outbound edges, and they are the treeNodes of the
\* outbound targets, with their FullName and Cum; a node without outbound
\* edges has no Children.
C3_ChildrenAreTheOutboundTargets ==
    (pc \in {"flame", "ready"} /\ i = g.n) =>
        \A n \in 1..j :
            LET ch == TreeNodeOf(n).Children
            IN /\ Len(ch) = Cardinality(Out(g, n))
               /\ Range(ch) = {nodeMap[c] : c \in Out(g, n)}
               /\ \A c \in Out(g, n) :
                    /\ heap[nodeMap[c]].FullName = PrintableName(g, c)
                    /\ heap[nodeMap[c]].Cum = CumValue(g, c)
               /\ Out(g, n) = {} => ch = <<>>

\* a node with two children whose treeNode the partition moved in nodes
C3_Witness ==
    /\ TreeDone
    /\ \E n \in GNodes(g) :
         /\ Cardinality(Out(g, n)) >= 2
         /\ nodes[nodeMap[n]] # nodeMap[n]

\* C4: for a forest the output is a strict tree: every treeNode occurs in
\* exactly one Children list, once; none is its own descendant; all are
\* reachable from the synthetic root.
C4_StrictTree ==
    (TreeDone /\ IsForest(g)) =>
        \A id \in DOMAIN heap :
            /\ Occurrences(id) = 1
            /\ id \notin Descendants(heap, id)
            /\ id \in Reachable(heap, rootNode[1])

\* a forest with a root and a non-root
C4_Witness ==
    /\ TreeDone
    /\ IsForest(g)
    /\ g.E # {}
    /\ Cardinality(Roots(g)) >= 2

RequestDone == pc = "ready" /\ req.handler # "none"

Failed == ~req.rptOk \/ req.render = "err" \/ req.enc \in {"partial", "err"}

SuccessKinds == {"json-top", "json-tree", "svg", "dot"}

\* C5: on a failure path the response has no success status and no data of
\* the success shape; without failure it is the one complete value with
\* status 200.  Status 200 never comes with an error message or a truncated
\* body.
C5_NoPartialOutput ==
    RequestDone =>
        IF Failed
        THEN /\ w.status # StatusOK
             /\ \A k \in DOMAIN w.body : w.body[k].kind = "text"
        ELSE /\ w.status = StatusOK
             /\ Len(w.body) = 1
             /\ w.body[1].kind \in SuccessKinds

\* C6: in dotsvg a failed renderer gives the status of its own, different from
\* the one of the report-generation and serialization failures, with the
\* message naming the tool; neither the image content type nor image bytes
\* go out.  Image bytes go out only when the renderer succeeded.
C6_RendererFailure ==
    RequestDone =>
        /\ (req.handler = "dotsvg" /\ req.render = "err") =>
             /\ w.status = StatusNotImplemented
             /\ w.status \notin {StatusOK, StatusInternalServerError}
             /\ w.body = <<Text(<<"Could not execute dot; may need to install graphviz.">>)>>
             /\ "image/svg+xml" \notin Range(w.sent)
        /\ (req.handler \in {"top", "flame"} /\ Failed) => w.status # StatusNotImplemented
        /\ (\E k \in DOMAIN w.body : w.body[k].kind = "svg") =>
             req.handler = "dotsvg" /\ req.rptOk /\ req.render = "ok"

C6_Witness ==
    RequestDone /\ req.handler = "dotsvg" /\ req.rptOk /\ req.render = "err"

\* C7: in each of the four handlers a failed report generation gives a
\* server-error status with the joined diagnostics, and nothing else: no
\* extraction, no success header, no data.
C7_ReportFailure ==
    (RequestDone /\ ~req.rptOk) =>
        /\ w.status = StatusInternalServerError
        /\ w.body = <<Text(GenErrorMsg(req.errList))>>
        /\ ~req.extracted
        /\ w.sent = <<"text/plain; charset=utf-8">>

\* C8 as stated: the flame view's report is a call tree and untrimmed, the
\* flat view's report is bounded in node count and not a call tree.
C8_Modes ==
    RequestDone =>
        /\ req.handler = "flame" => cfg.CallTree /\ ~cfg.Trim
        /\ req.handler = "top" => cfg.NodeCount = TopNodeCount /\ ~cfg.CallTree

\* C8 amended: the flame view's report is a call tree and untrimmed whatever
\* the request says; the flat view's report has NodeCount 500 and keeps the
\* request's CallTree and Trim.
C8_ModesAmended ==
    RequestDone =>
        /\ req.handler = "flame" => cfg.CallTree /\ ~cfg.Trim
        /\ req.handler = "top" =>
             /\ cfg.NodeCount = TopNodeCount
             /\ cfg.NodeCount > 0
             /\ cfg.CallTree = req.in.CallTree
             /\ cfg.Trim = req.in.Trim

\* the flat view asked for with a call-tree configuration
C8_Witness ==
    RequestDone /\ req.handler = "top" /\ req.in.CallTree /\ cfg.CallTree

\* (FullName, Cum) of the children of treeNode x, as a multiset
KidBag(h, x) ==
    LET pair(k) == <<h[x.Children[k]].FullName, h[x.Children[k]].Cum>>
    IN [p \in {pair(k) : k \in DOMAIN x.Children} |->
          Cardinality({k \in DOMAIN x.Children : pair(k) = p})]

NodeSummary(h, x) ==
    [Name |-> x.Name, FullName |-> x.FullName, Cum |-> x.Cum,
     CumFormat |-> x.CumFormat, Percent |-> x.Percent, kids |-> KidBag(h, x)]

TreeSummary(t) ==
    [count |-> Len(t.heap) + 1,
     root  |-> NodeSummary(t.heap, t.root),
     nodes |-> [n \in DOMAIN t.nodeMap |-> NodeSummary(t.heap, t.heap[t.nodeMap[n]])]]

\* C9: two runs of the builder on the same graph give the same number of
\* treeNodes and, node by node, the same values, formatted strings and
\* multiset of (child name, child value), whatever the orders in which the
\* outbound maps were iterated; the graph is the same before and after.
C9_SameTreeTwice ==
    (TreeDone /\ prev # <<>>) =>
        /\ prev[1].g = g
        /\ TreeSummary(prev[1]) = TreeSummary(Snapshot)

\* the two runs iterated some outbound map in different orders
C9_Witness ==
    /\ TreeDone
    /\ prev # <<>>
    /\ prev[1].heap # heap

\* C10: after each iteration of the first loop the roots seen so far are
\* nodes[0:nroots], the non-roots seen are nodes[nroots:], nroots and
\* rootValue count and sum the roots, nodes is a permutation of the treeNodes
\* allocated, and nodes[nroots] was in range.
C10_PartitionInvariant ==
    /\ pc # "panic"
    /\ LET seen == 1..i
           seenRoots == Roots(g) \cap seen
       IN /\ nroots = Cardinality(seenRoots)
          /\ Len(nodes) = i
          /\ Len(heap) = i
          /\ Range(nodes) = DOMAIN heap
          /\ DOMAIN nodeMap = seen
          /\ {nodes[k] : k \in 1..nroots} = {nodeMap[n] : n \in seenRoots}
          /\ {nodes[k] : k \in (nroots + 1)..i} = {nodeMap[n] : n \in seen \ seenRoots}
          /\ rootValue = SumOver(seenRoots, CumOf)

\* inside the loop, a root found after a non-root took the first slot
C10_Witness ==
    /\ pc = "flame"
    /\ i < g.n
    /\ nroots >= 1
    /\ nroots < i
    /\ nodes[1] # 1

====
